---- MODULE Spec2Model ----
(***************************************************************************)
(* Model of the sudo.ai MVP client: the S3 multipart upload orchestrator   *)
(* of APIClient (uploadWithS3Multipart) and the job polling loops of       *)
(* FeaturePage (pollJob), SplitPanel (run) and the panels with one job     *)
(* slot (MergePanel, TranscribePanel, RenamePanel).                        *)
(*                                                                         *)
(* SpecUpload  one call of APIClient.uploadWithS3Multipart, with the       *)
(*             backend's answers and the order of the part responses       *)
(*             chosen nondeterministically.                                *)
(* SpecPoll    the job list and the polling loops of one mounted           *)
(*             component, with the backend's status tokens chosen          *)
(*             nondeterministically.                                       *)
(* SpecFlow    what comes before and around a submission: the discovery    *)
(*             of the tus endpoint by FeaturePage and TusUploader, the     *)
(*             uploads of one run of onGetStarted, and the job submission  *)
(*             calls of APIClient.                                         *)
(***************************************************************************)
EXTENDS Integers, Sequences, FiniteSets

\* ------------------------------------------------------------------ bounds
\* Largest number of parts the backend plans for one file.
MaxParts == 4
\* Largest number of calls of APIClient.submit*Job.
MaxSubmissions == 3
\* Largest max_concurrent the backend advertises.
MaxConcurrency == 3
\* Largest number of abortMultipartUpload invocations of one run.
MaxAbortRequests == 2

\* --------------------------------------------------------- program constants
MB == 1024 * 1024
\* chunkSize fallback of uploadWithS3Multipart: 64MB.
DefaultChunkSize == 64 * 1024 * 1024
\* maxConcurrent fallback of uploadWithS3Multipart.
DefaultMaxConcurrent == 3

Min(a, b) == IF a < b THEN a ELSE b
Max(a, b) == IF a > b THEN a ELSE b

VARIABLES
  \* ---- APIClient.uploadWithS3Multipart
  upc,             \* position of the call: idle, initiating, uploading,
                   \* completing, returned (resolved), failed (rejected)
  fileSize,        \* file.size
  uploadInfo,      \* the initiate response (NoInfo before it arrives)
  partState,       \* per index of presigned_urls: pending, inflight, ok,
                   \* or the way the PUT failed
  sliced,          \* per index: the chunk <<start, end>> cut by file.slice
  puts,            \* per index: PUT requests sent for the part
  parts,           \* the parts array: per index (from 1) the part_number of
                   \* the entry stored there, 0 for none
  lastStored,      \* the part_number of the entry stored last (0: none)
  completePayload, \* the parts sent with the completion call
  completedBytes,  \* the completedBytes counter
  batchIndex,      \* the batch loop's i
  failure,         \* which step rejected: none, initiate, part, complete
  completeCalls,   \* POST /uploads/s3/complete requests sent
  abortRequests,   \* invocations of abortMultipartUpload
  abortCalls,      \* POST /uploads/s3/abort requests sent
  \* ---- the job list and the polling loops of one component
  component,       \* the component that owns the list: FeaturePage,
                   \* SplitPanel, or MergePanel for the panels with one slot
  mounted,         \* FALSE once the component has been unmounted
  jobs,            \* the jobs state: entries [id, state], id 0 for an
                   \* entry that has no id field yet
  creating,        \* submissions in flight: FeaturePage, the index of the
                   \* tmp entry; SplitPanel, the number of files of each run
  nextId,          \* the task id the backend hands out next
  loop,            \* per task id, the polling loop: none, requesting,
                   \* sleeping, done, crashed
  termSeen,        \* per task id: a status response was SUCCESS or FAILURE
  noId,            \* the loops whose submission was answered without a
                   \* task_id: they poll /jobs/undefined
  failStreak,      \* per loop: status requests that failed in a row
  lastSnapshot,    \* the last status response handled: its job, its state,
                   \* whether it was emitted, whether the owner was mounted
  \* ---- discovery, uploads and submissions
  served,          \* the tus_endpoint GET /uploads/tus answers with
  tusEndpoint,     \* FeaturePage's tusEndpoint state, <<>> for ""
  fpEffect,        \* the discovery request of FeaturePage's mount effect:
                   \* pending, done
  fpRun,           \* position of onGetStarted: idle, discovering, uploading,
                   \* submitting
  fpKind,          \* the feature of the current or last run: none, split,
                   \* merge
  fpUps,           \* the files of the run in the result of uploadViaTus:
                   \* of files 1 and 2 (merge: video and audio) those whose
                   \* upload succeeded
  fpSubmitted,     \* the files of the run whose URL went into a submitted job
  lastAlert,       \* what the last alert() of FeaturePage was about: none,
                   \* files, upload, error
  discovered,      \* some getTusEndpoint() call has returned an endpoint
  uploadsTo,       \* the endpoints tus upload requests were sent to
  tuEffect,        \* the discovery request of TusUploader's mount effect:
                   \* pending, done, failed
  tuPick,          \* position of TusUploader.onPick: idle, discovering
  invocations,     \* calls of APIClient.submit*Job
  requests,        \* fetch() calls made by APIClient.request for them
  apiCall,         \* the submission whose request is outstanding
  apiOutcome       \* how the last submission call ended: none, returned,
                   \* thrown

uploadVars == <<upc, fileSize, uploadInfo, partState, sliced, puts, parts,
                lastStored, completePayload,
                completedBytes, batchIndex, failure, completeCalls,
                abortRequests, abortCalls>>

pollVars == <<component, mounted, jobs, creating, nextId, loop, termSeen,
              noId, failStreak, lastSnapshot>>

flowVars == <<served, tusEndpoint, fpEffect, fpRun, fpKind, fpUps,
              fpSubmitted, lastAlert,
              discovered, uploadsTo, tuEffect, tuPick, invocations, requests,
              apiCall, apiOutcome>>

vars == <<uploadVars, pollVars, flowVars>>

\* ------------------------------------------------------------ the backend
NoInfo == [presigned_urls |-> <<>>, chunk_size |-> 0, max_concurrent |-> 0,
           initiated |-> FALSE]

\* Part sizes the backend is configured with (s3_multipart_part_size, default
\* 64 MB): the default, and the 5 MB of the documented example.
ServerChunkSizes == {5 * MB, DefaultChunkSize}

\* File sizes around the part boundaries of chunk size c: exact multiples,
\* one byte more than a multiple, one byte less.
FileSizesFor(c) ==
  {s \in {c * k - r : k \in 1..MaxParts, r \in {0, 1, c - 1}} : s > 0}

FileSizes == UNION {FileSizesFor(c) : c \in ServerChunkSizes}

NumParts(size, c) == (size + c - 1) \div c

\* The backend's plan: consecutive parts of c bytes, the last one the rest.
ServerPlan(size, c) ==
  [k \in 1..NumParts(size, c) |->
     [part_number |-> k,
      size |-> IF k < NumParts(size, c) THEN c
               ELSE size - (NumParts(size, c) - 1) * c]]

\* The initiate responses for a file: the plan, with or without the optional
\* metadata block (0 stands for an absent field).
InitiateResponses(size) ==
  UNION {
    {[presigned_urls |-> ServerPlan(size, c), chunk_size |-> m[1],
      max_concurrent |-> m[2], initiated |-> TRUE] :
       m \in {<<0, 0>>} \cup {<<c, mc>> : mc \in 1..MaxConcurrency}} :
    c \in {d \in ServerChunkSizes : NumParts(size, d) <= MaxParts}}

\* ----------------------------------------------- uploadWithS3Multipart
\* const chunkSize = uploadInfo.metadata?.chunk_size || 64 * 1024 * 1024
chunkSize ==
  IF uploadInfo.chunk_size # 0 THEN uploadInfo.chunk_size ELSE DefaultChunkSize

\* const maxConcurrent = uploadInfo.metadata?.max_concurrent || 3
maxConcurrent ==
  IF uploadInfo.max_concurrent # 0 THEN uploadInfo.max_concurrent
  ELSE DefaultMaxConcurrent

presigned_urls == uploadInfo.presigned_urls
NParts == Len(presigned_urls)

\* start and end of uploadPart
SliceStart(partInfo) == (partInfo.part_number - 1) * chunkSize
SliceEnd(partInfo) == Min(SliceStart(partInfo) + partInfo.size, fileSize)

\* file.slice(start, end): both positions are clamped to the file, and an end
\* before the start gives the empty chunk.
FileSlice(start, end) ==
  LET s == Min(Max(start, 0), fileSize)
      e == Min(Max(end, 0), fileSize)
  IN  <<s, Max(s, e)>>

Chunk(partInfo) == FileSlice(SliceStart(partInfo), SliceEnd(partInfo))
ChunkSizeOf(c) == c[2] - c[1]

\* How a PUT can fail: a status that is not 2xx (429, another 4xx, 5xx), a
\* 2xx answer without ETag header, a rejected fetch.
FailedStates == {"http_4xx", "http_429", "http_5xx", "no_etag",
                 "network_error"}
\* The failures the retry rule of the specification calls transient.
Transient == {"http_429", "http_5xx", "network_error"}
PutOutcomes == {"ok"} \cup FailedStates

\* uploadPart reaches its end without throwing: fetch resolved, response.ok,
\* and the ETag header is there.
FulfilledWithoutETag(r) == r \in {"ok", "no_etag"}
Fulfilled(r) == r = "ok"

\* presigned_urls.slice(i, i + maxConcurrent), as indices 1..NParts
BatchUnbounded(i) == {k \in 1..NParts : k > i}
Batch(i) == {k \in 1..NParts : k > i /\ k <= i + maxConcurrent}

\* Promise.all over the promises of a batch: rejected as soon as one of them
\* is, fulfilled when all are, pending otherwise.
PromiseAllSettled(st, batch) ==
  IF \A k \in batch : st[k] \in PutOutcomes THEN "fulfilled" ELSE "pending"
PromiseAll(st, batch) ==
  IF \E k \in batch : st[k] \in PutOutcomes /\ ~Fulfilled(st[k])
  THEN "rejected"
  ELSE IF \A k \in batch : Fulfilled(st[k]) THEN "fulfilled"
  ELSE "pending"

\* batch.map(uploadPart): every part of the batch is sliced and its PUT sent.
StartBatch(st, i) ==
  [k \in 1..NParts |-> IF k \in Batch(i) THEN "inflight" ELSE st[k]]
SliceBatch(sl, i) ==
  [k \in 1..NParts |->
     IF k \in Batch(i) THEN Chunk(presigned_urls[k]) ELSE sl[k]]

\* The fetch of uploadPart, once for every part of the batch.
PutBatch(pu, i) ==
  [k \in 1..NParts |-> IF k \in Batch(i) THEN pu[k] + 1 ELSE pu[k]]

\* PUT requests uploadPart sends after the answer r to its fetch: it throws
\* or returns, there is no loop around the fetch.
RefetchesOnError(r) == IF r \in {"http_4xx", "http_5xx"} THEN 1 ELSE 0
Refetches(r) == 0

\* parts[part_number - 1] = { part_number, etag }
PushPart(arr, pn) ==
  [arr EXCEPT ![Cardinality({i \in DOMAIN arr : arr[i] # 0}) + 1] = pn]
StorePart(arr, pn) == [arr EXCEPT ![pn] = pn]

\* completedBytes += chunk.size
AddBytesToStaleRead(cb, c) == ChunkSizeOf(c)
AddBytes(cb, c) == cb + ChunkSizeOf(c)

InFlight == {k \in DOMAIN partState : partState[k] = "inflight"}
Pending == {k \in DOMAIN partState : partState[k] = "pending"}

UploadInit ==
  /\ upc = "idle"
  /\ fileSize = 0
  /\ uploadInfo = NoInfo
  /\ partState = <<>>
  /\ sliced = <<>>
  /\ puts = <<>>
  /\ parts = <<>>
  /\ lastStored = 0
  /\ completePayload = <<>>
  /\ completedBytes = 0
  /\ batchIndex = 0
  /\ failure = "none"
  /\ completeCalls = 0
  /\ abortRequests = 0
  /\ abortCalls = 0

\* uploadWithS3Multipart(file): the initiate request is sent.
CallUpload ==
  /\ upc = "idle"
  /\ \E s \in FileSizes : fileSize' = s
  /\ upc' = "initiating"
  /\ UNCHANGED <<uploadInfo, partState, sliced, puts, parts, lastStored,
                 completePayload, completedBytes, batchIndex, failure,
                 completeCalls, abortRequests, abortCalls>>
  /\ UNCHANGED pollVars
  /\ UNCHANGED flowVars

\* The initiate request fails: request() throws, the catch block rethrows.
InitiateFails ==
  /\ upc = "initiating"
  /\ upc' = "failed"
  /\ failure' = "initiate"
  /\ UNCHANGED <<fileSize, uploadInfo, partState, sliced, puts, parts,
                 lastStored, completePayload, completedBytes, batchIndex,
                 completeCalls, abortRequests, abortCalls>>
  /\ UNCHANGED pollVars
  /\ UNCHANGED flowVars

\* The initiate response arrives: the first batch is started at once.
InitiateResponds ==
  /\ upc = "initiating"
  /\ fileSize' = fileSize
  /\ \E info \in InitiateResponses(fileSize) :
       /\ uploadInfo' = info
       /\ LET n == Len(info.presigned_urls)
              pend == [k \in 1..n |-> "pending"]
              none == [k \in 1..n |-> <<0, 0>>]
          IN  /\ partState' = StartBatch(pend, 0)'
              /\ sliced' = SliceBatch(none, 0)'
              /\ puts' = PutBatch([k \in 1..n |-> 0], 0)'
              /\ parts' = [k \in 1..n |-> 0]
  /\ upc' = "uploading"
  /\ batchIndex' = 0
  /\ UNCHANGED <<lastStored, completePayload, completedBytes, failure,
                 completeCalls, abortRequests, abortCalls>>
  /\ UNCHANGED pollVars
  /\ UNCHANGED flowVars

\* The response of the PUT of part k arrives (or its fetch rejects). uploadPart
\* runs to its end; when the function is still awaiting the batch, the batch
\* loop runs on in the same turn: it rejects, starts the next batch, or sends
\* the completion call.
PartResponds(k, r) ==
  /\ upc \in {"uploading", "completing", "returned", "failed"}
  /\ k \in InFlight
  /\ LET st == [partState EXCEPT ![k] = r]
         pn == presigned_urls[k].part_number
         all == PromiseAll(st, Batch(batchIndex))
         next == batchIndex + maxConcurrent
         pu == [puts EXCEPT ![k] = @ + Refetches(r)]
     IN  /\ puts' = IF upc = "uploading" /\ k \in Batch(batchIndex)
                       /\ all = "fulfilled" /\ next < NParts
                    THEN PutBatch(pu, next) ELSE pu
         /\ IF Fulfilled(r)
            THEN /\ parts' = StorePart(parts, pn)
                 /\ lastStored' = pn
                 /\ completedBytes' = AddBytes(completedBytes, sliced[k])
            ELSE UNCHANGED <<parts, lastStored, completedBytes>>
         /\ IF upc # "uploading" \/ k \notin Batch(batchIndex) \/ all = "pending"
            THEN /\ partState' = st
                 /\ UNCHANGED <<upc, failure, batchIndex, sliced,
                                completeCalls, completePayload>>
            ELSE IF all = "rejected"
            THEN /\ partState' = st
                 /\ upc' = "failed"
                 /\ failure' = "part"
                 /\ UNCHANGED <<batchIndex, sliced, completeCalls,
                             completePayload>>
            ELSE IF next < NParts
            THEN /\ batchIndex' = next
                 /\ partState' = StartBatch(st, next)
                 /\ sliced' = SliceBatch(sliced, next)
                 /\ UNCHANGED <<upc, failure, completeCalls, completePayload>>
            ELSE /\ partState' = st
                 /\ batchIndex' = next
                 /\ upc' = "completing"
                 /\ completeCalls' = completeCalls + 1
                 /\ completePayload' = parts'
                 /\ UNCHANGED <<failure, sliced>>
  /\ UNCHANGED <<fileSize, uploadInfo, abortRequests, abortCalls>>
  /\ UNCHANGED pollVars
  /\ UNCHANGED flowVars

PartResponse == \E k \in DOMAIN partState, r \in PutOutcomes : PartResponds(k, r)

\* completeMultipartUpload resolves: the s3:// reference is returned.
CompleteResponds ==
  /\ upc = "completing"
  /\ upc' = "returned"
  /\ UNCHANGED <<fileSize, uploadInfo, partState, sliced, puts, parts,
                 lastStored, completePayload, completedBytes, batchIndex,
                 failure, completeCalls, abortRequests, abortCalls>>
  /\ UNCHANGED pollVars
  /\ UNCHANGED flowVars

\* completeMultipartUpload throws: the catch block logs and rethrows.
CompleteFailsRestartsParts ==
  /\ upc = "completing"
  /\ upc' = "uploading"
  /\ UNCHANGED <<fileSize, uploadInfo, partState, sliced, puts, parts,
                 lastStored, completePayload, completedBytes, batchIndex,
                 failure, completeCalls, abortRequests, abortCalls>>
  /\ UNCHANGED pollVars
  /\ UNCHANGED flowVars
\* A catch block that logs without rethrowing, which the code does not have.
CompleteFailsSwallowed ==
  /\ upc = "completing"
  /\ upc' = "returned"
  /\ failure' = "complete"
  /\ UNCHANGED <<fileSize, uploadInfo, partState, sliced, puts, parts,
                 lastStored, completePayload, completedBytes, batchIndex,
                 completeCalls, abortRequests, abortCalls>>
  /\ UNCHANGED pollVars
  /\ UNCHANGED flowVars
CompleteFails ==
  /\ upc = "completing"
  /\ upc' = "failed"
  /\ failure' = "complete"
  /\ UNCHANGED <<fileSize, uploadInfo, partState, sliced, puts, parts,
                 lastStored, completePayload, completedBytes, batchIndex,
                 completeCalls, abortRequests, abortCalls>>
  /\ UNCHANGED pollVars
  /\ UNCHANGED flowVars

\* abortMultipartUpload(key, uploadId), called by a consumer that holds the
\* upload's key and id: every invocation sends one request.
AbortMultipartUpload ==
  /\ uploadInfo.initiated
  /\ abortRequests < MaxAbortRequests
  /\ abortRequests' = abortRequests + 1
  /\ abortCalls' = abortCalls + 1
  /\ UNCHANGED <<upc, fileSize, uploadInfo, partState, sliced, puts, parts,
                 lastStored, completePayload, completedBytes, batchIndex,
                 failure, completeCalls>>
  /\ UNCHANGED pollVars
  /\ UNCHANGED flowVars

NextUpload ==
  \/ CallUpload
  \/ InitiateFails
  \/ InitiateResponds
  \/ PartResponse
  \/ CompleteResponds
  \/ CompleteFails
  \/ AbortMultipartUpload

\* ------------------------------------------------- job list and polling
\* Largest number of jobs submitted by one component.
MaxJobs == 2

Ids == 1..MaxJobs

\* State tokens of GET /jobs/{task_id}: the four the client names, and one in
\* another casing.
Tokens == {"PENDING", "STARTED", "SUCCESS", "FAILURE", "success"}
TerminalTokens == {"SUCCESS", "FAILURE"}

NoSnapshot == [id |-> 0, state |-> "none", emitted |-> FALSE, mounted |-> TRUE]

\* FeaturePage.pollJob: if (s.state === "SUCCESS" || s.state === "FAILURE") break
PollJobStopsOnSuccessOnly(state) == state = "SUCCESS"
PollJobStops(state) == state = "SUCCESS" \/ state = "FAILURE"

\* SplitPanel.run: the two tests that end in break
SplitPanelStops(state) == state = "SUCCESS" \/ state = "FAILURE"

\* MergePanel, TranscribePanel, RenamePanel:
\* if (s.state !== "PENDING" && s.state !== "STARTED") { setJob(...); break; }
PanelStops(state) == state # "PENDING" /\ state # "STARTED"

LoopStops(state) ==
  CASE component = "FeaturePage" -> PollJobStops(state)
    [] component = "SplitPanel" -> SplitPanelStops(state)
    [] component = "MergePanel" -> PanelStops(state)

\* pollJob hands every snapshot to onUpdate; SplitPanel calls setJobs only in
\* the two branches that break.
LoopEmits(state) ==
  CASE component = "FeaturePage" -> TRUE
    [] component = "SplitPanel" -> SplitPanelStops(state)
    [] component = "MergePanel" -> PanelStops(state)

\* j.map((x) => (x.id === id ? { ...x, status: s.state, ... } : x))
SetStatusOfAll(j, id, state) ==
  [k \in DOMAIN j |-> [j[k] EXCEPT !.state = state]]
SetStatus(j, id, state) ==
  [k \in DOMAIN j |-> IF j[k].id = id THEN [j[k] EXCEPT !.state = state]
                      ELSE j[k]]

\* j.task_id of a submission answer that has no such field. A tmp entry has
\* no id field either, so that x.id === id holds between the two.
Undefined == 0

\* The state update of a snapshot: FeaturePage and SplitPanel map over the
\* list, the panels with one slot call
\* setJob({ id: task_id, state: s.state, result: s.result }).
OnUpdateReplacesList(j, id, state) == <<[id |-> id, state |-> state]>>
OnUpdate(j, id, state) ==
  IF component = "MergePanel" THEN <<[id |-> id, state |-> state]>>
  ELSE SetStatus(j, id, state)

\* The task id loop id polls and matches entries with.
TaskId(id) == IF id \in noId THEN Undefined ELSE id

\* A state update of a component that is no longer mounted is dropped.
SetJobs(new) == IF mounted THEN new ELSE jobs

\* await new Promise((r) => setTimeout(r, 1200)): the loop of one job goes on
\* when its own timer fires.
TimerReadySerial(id) ==
  loop[id] = "sleeping" /\ \A o \in Ids \ {id} : loop[o] # "requesting"
TimerReady(id) == loop[id] = "sleeping"

PollInit ==
  /\ component \in {"FeaturePage", "SplitPanel", "MergePanel"}
  /\ mounted = TRUE
  /\ jobs = <<>>
  /\ creating = <<>>
  /\ nextId = 1
  /\ loop = [id \in Ids |-> "none"]
  /\ termSeen = [id \in Ids |-> FALSE]
  /\ noId = {}
  /\ failStreak = [id \in Ids |-> 0]
  /\ lastSnapshot = NoSnapshot

\* Task ids the backend can still hand out to new submissions.
IdsLeft == MaxJobs - (nextId - 1)

\* FeaturePage.onGetStarted, one job: the QUEUED entry is appended and the
\* submission request is sent. The button is disabled while a run is going on.
FP_Submit ==
  /\ component = "FeaturePage"
  /\ mounted
  /\ creating = <<>>
  /\ Len(jobs) < MaxJobs
  /\ jobs' = Append(jobs, [id |-> 0, state |-> "QUEUED"])
  /\ creating' = <<Len(jobs) + 1>>
  /\ UNCHANGED <<component, mounted, nextId, loop, termSeen, lastSnapshot>>
  /\ UNCHANGED <<noId, failStreak>>
  /\ UNCHANGED uploadVars
  /\ UNCHANGED flowVars

\* The submission answers with a task_id: the tmp entry gets the id and
\* STARTED, and pollJob is called, not awaited; it sends its first request.
FP_Created ==
  /\ component = "FeaturePage"
  /\ creating # <<>>
  /\ jobs' = SetJobs([jobs EXCEPT ![creating[1]] =
                        [id |-> nextId, state |-> "STARTED"]])
  /\ loop' = [loop EXCEPT ![nextId] = "requesting"]
  /\ nextId' = nextId + 1
  /\ creating' = <<>>
  /\ UNCHANGED <<component, mounted, termSeen, lastSnapshot>>
  /\ UNCHANGED <<noId, failStreak>>
  /\ UNCHANGED uploadVars
  /\ UNCHANGED flowVars

\* The submission is answered with a JSON document that has no task_id (the
\* create functions do not look at r.ok): the tmp entry gets id undefined and
\* STARTED, and pollJob(undefined) is started.
FP_CreatedNoId ==
  /\ component = "FeaturePage"
  /\ creating # <<>>
  /\ jobs' = SetJobs([jobs EXCEPT ![creating[1]] =
                        [id |-> Undefined, state |-> "STARTED"]])
  /\ loop' = [loop EXCEPT ![nextId] = "requesting"]
  /\ noId' = noId \cup {nextId}
  /\ nextId' = nextId + 1
  /\ creating' = <<>>
  /\ UNCHANGED <<component, mounted, termSeen, failStreak, lastSnapshot>>
  /\ UNCHANGED uploadVars
  /\ UNCHANGED flowVars

\* The submission request rejects (or its body is no JSON): onGetStarted's
\* catch block alerts.
FP_CreateFails ==
  /\ component = "FeaturePage"
  /\ creating # <<>>
  /\ creating' = <<>>
  /\ UNCHANGED <<component, mounted, jobs, nextId, loop, termSeen,
                 lastSnapshot>>
  /\ UNCHANGED <<noId, failStreak>>
  /\ UNCHANGED uploadVars
  /\ UNCHANGED flowVars

RECURSIVE Sum(_)
Sum(q) == IF q = <<>> THEN 0 ELSE Head(q) + Sum(Tail(q))

\* SplitPanel.run with n uploaded files: n createSplit requests are sent.
SP_Run(n) ==
  /\ component = "SplitPanel"
  /\ mounted
  /\ n + Sum(creating) <= IdsLeft
  /\ creating' = Append(creating, n)
  /\ UNCHANGED <<component, mounted, jobs, nextId, loop, termSeen,
                 lastSnapshot>>
  /\ UNCHANGED <<noId, failStreak>>
  /\ UNCHANGED uploadVars
  /\ UNCHANGED flowVars

RemoveAt(q, i) == [k \in 1..(Len(q) - 1) |-> IF k < i THEN q[k] ELSE q[k + 1]]

\* Promise.all of run i fulfils: the list is replaced by the created jobs in
\* state PENDING and one loop per job is started. The jobs in bad were
\* answered without a task_id: their id is undefined.
SP_Created(i) ==
  /\ component = "SplitPanel"
  /\ i \in DOMAIN creating
  /\ LET n == creating[i]
         new == {id \in Ids : id >= nextId /\ id < nextId + n}
     IN  \E bad \in SUBSET new :
           /\ jobs' = SetJobs([k \in 1..n |->
                                 [id |-> IF nextId + k - 1 \in bad THEN Undefined
                                         ELSE nextId + k - 1,
                                  state |-> "PENDING"]])
           /\ loop' = [id \in Ids |->
                         IF id \in new THEN "requesting" ELSE loop[id]]
           /\ noId' = noId \cup bad
           /\ nextId' = nextId + n
  /\ creating' = RemoveAt(creating, i)
  /\ UNCHANGED <<component, mounted, termSeen, failStreak, lastSnapshot>>
  /\ UNCHANGED uploadVars
  /\ UNCHANGED flowVars

\* One createSplit of run i rejects: run() throws before any loop is started.
SP_CreateFails(i) ==
  /\ component = "SplitPanel"
  /\ i \in DOMAIN creating
  /\ creating' = RemoveAt(creating, i)
  /\ UNCHANGED <<component, mounted, jobs, nextId, loop, termSeen,
                 lastSnapshot>>
  /\ UNCHANGED <<noId, failStreak>>
  /\ UNCHANGED uploadVars
  /\ UNCHANGED flowVars

\* The button of MergePanel, TranscribePanel or RenamePanel is clicked: the
\* submission request is sent. Nothing disables the button while an earlier
\* job is polled.
JP_Click ==
  /\ component = "MergePanel"
  /\ mounted
  /\ 1 + Sum(creating) <= IdsLeft
  /\ creating' = Append(creating, 1)
  /\ UNCHANGED <<component, mounted, jobs, nextId, loop, termSeen,
                 lastSnapshot>>
  /\ UNCHANGED <<noId, failStreak>>
  /\ UNCHANGED uploadVars
  /\ UNCHANGED flowVars

\* The submission of click i is answered, with a task_id or without (hasId):
\* setJob({ id: task_id, state: "PENDING" }) and the loop starts.
JP_Created(i, hasId) ==
  /\ component = "MergePanel"
  /\ i \in DOMAIN creating
  /\ jobs' = SetJobs(<<[id |-> IF hasId THEN nextId ELSE Undefined,
                        state |-> "PENDING"]>>)
  /\ loop' = [loop EXCEPT ![nextId] = "requesting"]
  /\ noId' = IF hasId THEN noId ELSE noId \cup {nextId}
  /\ nextId' = nextId + 1
  /\ creating' = RemoveAt(creating, i)
  /\ UNCHANGED <<component, mounted, termSeen, failStreak, lastSnapshot>>
  /\ UNCHANGED uploadVars
  /\ UNCHANGED flowVars

\* The submission of click i rejects: the handler ends with the exception.
JP_CreateFails(i) ==
  /\ component = "MergePanel"
  /\ i \in DOMAIN creating
  /\ creating' = RemoveAt(creating, i)
  /\ UNCHANGED <<component, mounted, jobs, nextId, loop, termSeen,
                 lastSnapshot>>
  /\ UNCHANGED <<noId, failStreak>>
  /\ UNCHANGED uploadVars
  /\ UNCHANGED flowVars

\* The status response of job id arrives with state s: the snapshot is
\* emitted, and the loop breaks or goes to sleep.
StatusResponds(id, s) ==
  /\ loop[id] = "requesting"
  /\ jobs' = IF LoopEmits(s) THEN SetJobs(OnUpdate(jobs, TaskId(id), s))
             ELSE jobs
  /\ lastSnapshot' = [id |-> id, state |-> s, emitted |-> LoopEmits(s),
                      mounted |-> mounted]
  /\ loop' = [loop EXCEPT ![id] = IF LoopStops(s) THEN "done" ELSE "sleeping"]
  /\ termSeen' = [termSeen EXCEPT ![id] = @ \/ s \in TerminalTokens]
  /\ failStreak' = [failStreak EXCEPT ![id] = 0]
  /\ UNCHANGED <<component, mounted, creating, nextId, noId>>
  /\ UNCHANGED uploadVars
  /\ UNCHANGED flowVars

\* getJob rejects (the request fails, or the body is no JSON): the loop ends
\* with the exception, which nothing catches.
StatusFails(id) ==
  /\ loop[id] = "requesting"
  /\ loop' = [loop EXCEPT ![id] = "crashed"]
  /\ failStreak' = [failStreak EXCEPT ![id] = @ + 1]
  /\ UNCHANGED <<component, mounted, jobs, creating, nextId, termSeen, noId,
                 lastSnapshot>>
  /\ UNCHANGED uploadVars
  /\ UNCHANGED flowVars

\* The inter-poll delay is over: the next status request is sent.
TimerFires(id) ==
  /\ TimerReady(id)
  /\ loop' = [loop EXCEPT ![id] = "requesting"]
  /\ UNCHANGED <<component, mounted, jobs, creating, nextId, termSeen,
                 lastSnapshot>>
  /\ UNCHANGED <<noId, failStreak>>
  /\ UNCHANGED uploadVars
  /\ UNCHANGED flowVars

\* The component goes away (onBack); nothing stops its loops.
Unmount ==
  /\ mounted
  /\ mounted' = FALSE
  /\ UNCHANGED <<component, jobs, creating, nextId, loop, termSeen,
                 lastSnapshot>>
  /\ UNCHANGED <<noId, failStreak>>
  /\ UNCHANGED uploadVars
  /\ UNCHANGED flowVars

NextPoll ==
  \/ FP_Submit
  \/ FP_Created
  \/ FP_CreatedNoId
  \/ FP_CreateFails
  \/ \E n \in 1..MaxJobs : SP_Run(n)
  \/ \E i \in 1..MaxJobs : SP_Created(i)
  \/ \E i \in 1..MaxJobs : SP_CreateFails(i)
  \/ JP_Click
  \/ \E i \in 1..MaxJobs, hasId \in BOOLEAN : JP_Created(i, hasId)
  \/ \E i \in 1..MaxJobs : JP_CreateFails(i)
  \/ \E id \in Ids, s \in Tokens : StatusResponds(id, s)
  \/ \E id \in Ids : StatusFails(id)
  \/ \E id \in Ids : TimerFires(id)
  \/ Unmount

\* ------------------------------- discovery, uploads and job submission
\* Endpoints as the pieces ensureFilesEndpoint looks at: the base, then "/"
\* or "/files" when the string ends with it.
Endpoints == {<<"http://tus">>, <<"http://tus", "/">>,
              <<"http://tus", "/files">>}

\* FeaturePage.ensureFilesEndpoint:
\* base.endsWith("/files") ? base : base.replace(/\/$/, "") + "/files"
ensureFilesEndpoint(base) ==
  IF base # <<>> /\ base[Len(base)] = "/files" THEN base
  ELSE IF base # <<>> /\ base[Len(base)] = "/"
       THEN SubSeq(base, 1, Len(base) - 1) \o <<"/files">>
       ELSE base \o <<"/files">>

\* A submission of APIClient: the kind and, for merge, the two references
\* ("" for a missing one).
NoCall == [kind |-> "none", video |-> "", audio |-> ""]
Refs == {"", "tusUrl"}
SubmitCalls ==
  {[kind |-> k, video |-> "", audio |-> ""] :
     k \in {"split", "transcribe", "rename"}}
  \cup {[kind |-> "merge", video |-> v, audio |-> a] : v \in Refs, a \in Refs}

FlowInit ==
  /\ served \in Endpoints
  /\ tusEndpoint = <<>>
  /\ fpEffect = "pending"
  /\ fpRun = "idle"
  /\ fpKind = "none"
  /\ fpUps = {}
  /\ fpSubmitted = {}
  /\ lastAlert = "none"
  /\ discovered = FALSE
  /\ uploadsTo = {}
  /\ tuEffect = "pending"
  /\ tuPick = "idle"
  /\ invocations = 0
  /\ requests = 0
  /\ apiCall = NoCall
  /\ apiOutcome = "none"

\* FeaturePage's mount effect: getTusEndpoint().then(setTusEndpoint(...))
FP_EffectResolves ==
  /\ fpEffect = "pending"
  /\ fpEffect' = "done"
  /\ tusEndpoint' = ensureFilesEndpoint(served)
  /\ discovered' = TRUE
  /\ UNCHANGED <<served, fpRun, fpKind, fpUps, fpSubmitted, lastAlert,
                 uploadsTo, tuEffect, tuPick, invocations, requests, apiCall,
                 apiOutcome>>
  /\ UNCHANGED <<uploadVars, pollVars>>

\* ... .catch(() => setTusEndpoint(""))
FP_EffectRejects ==
  /\ fpEffect = "pending"
  /\ fpEffect' = "done"
  /\ tusEndpoint' = <<>>
  /\ UNCHANGED <<served, fpRun, fpKind, fpUps, fpSubmitted, lastAlert,
                 discovered, uploadsTo, tuEffect, tuPick, invocations,
                 requests, apiCall, apiOutcome>>
  /\ UNCHANGED <<uploadVars, pollVars>>

\* The merge branch of onGetStarted: if (!vid || !aud) { alert; return }
MergeGuard(vid, aud) == ~vid \/ ~aud

\* onGetStarted with uploaded files, for split or merge; vid and aud say
\* whether pickVideoAudio finds a video and an audio file. The merge guard
\* returns before uploadViaTus; uploadViaTus asks for the endpoint when the
\* state holds none, and otherwise hands the files to uppy.
FP_GetStarted(kind, vid, aud) ==
  /\ fpRun = "idle"
  /\ IF kind = "merge" /\ MergeGuard(vid, aud)
     THEN /\ lastAlert' = "files"
          /\ UNCHANGED <<fpRun, fpKind, fpUps, fpSubmitted, uploadsTo>>
     ELSE /\ fpKind' = kind
          /\ fpUps' = {}
          /\ fpSubmitted' = {}
          /\ lastAlert' = "none"
          /\ IF tusEndpoint = <<>>
             THEN /\ fpRun' = "discovering"
                  /\ UNCHANGED uploadsTo
             ELSE /\ fpRun' = "uploading"
                  /\ uploadsTo' =
                       uploadsTo \cup {ensureFilesEndpoint(tusEndpoint)}
  /\ UNCHANGED <<served, tusEndpoint, fpEffect, discovered, tuEffect, tuPick,
                 invocations, requests, apiCall, apiOutcome>>
  /\ UNCHANGED <<uploadVars, pollVars>>

\* uploadViaTus: base = ensureFilesEndpoint(await getTusEndpoint());
\* setTusEndpoint(base); endpoint = ensureFilesEndpoint(base)
FP_DiscoveryResolves ==
  /\ fpRun = "discovering"
  /\ fpRun' = "uploading"
  /\ tusEndpoint' = ensureFilesEndpoint(served)
  /\ discovered' = TRUE
  /\ uploadsTo' =
       uploadsTo \cup {ensureFilesEndpoint(ensureFilesEndpoint(served))}
  /\ UNCHANGED <<served, fpEffect, fpKind, fpUps, fpSubmitted, lastAlert,
                 tuEffect, tuPick, invocations, requests, apiCall,
                 apiOutcome>>
  /\ UNCHANGED <<uploadVars, pollVars>>

\* A fallback the code does not have: upload to an endpoint of the expected
\* shape when getTusEndpoint() throws.
FP_DiscoveryRejectsGuesses ==
  /\ fpRun = "discovering"
  /\ fpRun' = "uploading"
  /\ uploadsTo' = uploadsTo \cup {<<"http://localhost:8080", "/files">>}
  /\ UNCHANGED <<served, tusEndpoint, fpEffect, fpKind, fpUps, fpSubmitted,
                 lastAlert, discovered, tuEffect, tuPick, invocations,
                 requests, apiCall, apiOutcome>>
  /\ UNCHANGED <<uploadVars, pollVars>>

\* getTusEndpoint() throws inside uploadViaTus: onGetStarted's catch block
\* alerts the message and the run is over.
FP_DiscoveryRejects ==
  /\ fpRun = "discovering"
  /\ fpRun' = "idle"
  /\ lastAlert' = "error"
  /\ UNCHANGED <<fpKind, fpUps, fpSubmitted>>
  /\ UNCHANGED <<served, tusEndpoint, fpEffect, discovered, uploadsTo,
                 tuEffect, tuPick, invocations, requests, apiCall,
                 apiOutcome>>
  /\ UNCHANGED <<uploadVars, pollVars>>

\* The files of a run: two uploaded files; in a merge run 1 is the video and
\* 2 the audio.
Files == {1, 2}

\* ups.find((u) => u.file === vid)!.tusUrl and the same for aud: both finds
\* return an entry; otherwise the property access throws.
MergeUrlsOptional(ups) == TRUE
MergeUrlsFound(ups) == 1 \in ups /\ 2 \in ups

\* The next job of a split run: for (const u of ups), in upload order.
NextSplit(ups, done) ==
  IF ups \ done = {} THEN {}
  ELSE {CHOOSE f \in ups \ done : \A g \in ups \ done : f <= g}

\* uppy's "complete": uploadViaTus resolves with the uploads that succeeded
\* (ok); a failed upload has alerted by then. Split submits a job for the
\* first result, if there is one; merge throws on a missing result and
\* otherwise submits the merge job with both URLs.
FP_UploadsComplete(ok) ==
  /\ fpRun = "uploading"
  /\ fpUps' = ok
  /\ IF fpKind = "merge"
     THEN IF MergeUrlsFound(ok)
          THEN /\ fpRun' = "submitting"
               /\ fpSubmitted' = Files
               /\ lastAlert' = IF ok = Files THEN lastAlert ELSE "upload"
          ELSE /\ fpRun' = "idle"
               /\ lastAlert' = "error"
               /\ UNCHANGED fpSubmitted
     ELSE /\ fpSubmitted' = NextSplit(ok, {})
          /\ fpRun' = IF ok = {} THEN "idle" ELSE "submitting"
          /\ lastAlert' = IF ok = Files THEN lastAlert ELSE "upload"
  /\ UNCHANGED <<served, tusEndpoint, fpEffect, fpKind, discovered,
                 uploadsTo, tuEffect, tuPick, invocations, requests, apiCall,
                 apiOutcome>>
  /\ UNCHANGED <<uploadVars, pollVars>>

\* The submission in flight is answered (answered) or rejects. Answered, a
\* split run submits the job of its next result; the run is over when there
\* is none, for merge, and when the request rejects (the catch block alerts).
\* The job list and the polling that follow are the subject of SpecPoll.
FP_SubmissionSettles(answered) ==
  /\ fpRun = "submitting"
  /\ IF answered /\ fpKind = "split" /\ NextSplit(fpUps, fpSubmitted) # {}
     THEN /\ fpSubmitted' = fpSubmitted \cup NextSplit(fpUps, fpSubmitted)
          /\ UNCHANGED <<fpRun, lastAlert>>
     ELSE /\ fpRun' = "idle"
          /\ lastAlert' = IF answered THEN lastAlert ELSE "error"
          /\ UNCHANGED fpSubmitted
  /\ UNCHANGED <<served, tusEndpoint, fpEffect, fpKind, fpUps, discovered,
                 uploadsTo, tuEffect, tuPick, invocations, requests, apiCall,
                 apiOutcome>>
  /\ UNCHANGED <<uploadVars, pollVars>>

\* TusUploader's mount effect: const tus = await getTusEndpoint(); the value
\* is logged and dropped.
TU_EffectSettles(ok) ==
  /\ tuEffect = "pending"
  /\ tuEffect' = IF ok THEN "done" ELSE "failed"
  /\ discovered' = (discovered \/ ok)
  /\ UNCHANGED <<served, tusEndpoint, fpEffect, fpRun, fpKind, fpUps,
                 fpSubmitted, lastAlert, uploadsTo, tuPick, invocations,
                 requests, apiCall, apiOutcome>>
  /\ UNCHANGED <<uploadVars, pollVars>>

\* TusUploader.onPick: const tus = await getTusEndpoint(), on every pick.
TU_OnPick ==
  /\ tuPick = "idle"
  /\ tuPick' = "discovering"
  /\ UNCHANGED <<served, tusEndpoint, fpEffect, fpRun, fpKind, fpUps,
                 fpSubmitted, lastAlert, discovered, uploadsTo, tuEffect,
                 invocations, requests, apiCall, apiOutcome>>
  /\ UNCHANGED <<uploadVars, pollVars>>

\* ... new Uppy({autoProceed: true}).use(Tus, {endpoint: tus, ...}) and the
\* files are added: the uploads go to the endpoint as it was answered.
TU_PickDiscoveryResolves ==
  /\ tuPick = "discovering"
  /\ tuPick' = "idle"
  /\ discovered' = TRUE
  /\ uploadsTo' = uploadsTo \cup {served}
  /\ UNCHANGED <<served, tusEndpoint, fpEffect, fpRun, fpKind, fpUps,
                 fpSubmitted, lastAlert, tuEffect, invocations, requests,
                 apiCall, apiOutcome>>
  /\ UNCHANGED <<uploadVars, pollVars>>

\* getTusEndpoint() throws: onPick rejects before uppy is created.
TU_PickDiscoveryRejects ==
  /\ tuPick = "discovering"
  /\ tuPick' = "idle"
  /\ UNCHANGED <<served, tusEndpoint, fpEffect, fpRun, fpKind, fpUps,
                 fpSubmitted, lastAlert, discovered, uploadsTo, tuEffect,
                 invocations, requests, apiCall, apiOutcome>>
  /\ UNCHANGED <<uploadVars, pollVars>>

\* APIClient.submitSplitJob / submitMergeJob / submitTranscribeJob /
\* submitRenameJob: return this.request(...), which calls fetch once. The
\* arguments go into the body as they are.
SubmitJob(call) ==
  /\ apiCall = NoCall
  /\ invocations < MaxSubmissions
  /\ invocations' = invocations + 1
  /\ requests' = requests + 1
  /\ apiCall' = call
  /\ UNCHANGED <<served, tusEndpoint, fpEffect, fpRun, fpKind, fpUps,
                 fpSubmitted, lastAlert, discovered, uploadsTo, tuEffect,
                 tuPick, apiOutcome>>
  /\ UNCHANGED <<uploadVars, pollVars>>

\* request: response.ok, return response.json()
RequestReturns ==
  /\ apiCall # NoCall
  /\ apiCall' = NoCall
  /\ apiOutcome' = "returned"
  /\ UNCHANGED <<served, tusEndpoint, fpEffect, fpRun, fpKind, fpUps,
                 fpSubmitted, lastAlert, discovered, uploadsTo, tuEffect,
                 tuPick, invocations, requests>>
  /\ UNCHANGED <<uploadVars, pollVars>>

\* A retry the code does not have: the request is sent again (once) when it
\* has failed.
RequestThrowsRetries ==
  /\ apiCall # NoCall
  /\ requests <= invocations
  /\ requests' = requests + 1
  /\ UNCHANGED <<served, tusEndpoint, fpEffect, fpRun, fpKind, fpUps,
                 fpSubmitted, lastAlert, discovered, uploadsTo, tuEffect,
                 tuPick, invocations, apiCall, apiOutcome>>
  /\ UNCHANGED <<uploadVars, pollVars>>

\* request: fetch rejects, or !response.ok: throw new Error(`API Error: ...`)
RequestThrows ==
  /\ apiCall # NoCall
  /\ apiCall' = NoCall
  /\ apiOutcome' = "thrown"
  /\ UNCHANGED <<served, tusEndpoint, fpEffect, fpRun, fpKind, fpUps,
                 fpSubmitted, lastAlert, discovered, uploadsTo, tuEffect,
                 tuPick, invocations, requests>>
  /\ UNCHANGED <<uploadVars, pollVars>>

NextFlow ==
  \/ FP_EffectResolves
  \/ FP_EffectRejects
  \/ \E kind \in {"split", "merge"}, vid \in BOOLEAN, aud \in BOOLEAN :
       FP_GetStarted(kind, vid, aud)
  \/ FP_DiscoveryResolves
  \/ FP_DiscoveryRejects
  \/ \E ok \in SUBSET Files : FP_UploadsComplete(ok)
  \/ \E answered \in BOOLEAN : FP_SubmissionSettles(answered)
  \/ \E ok \in BOOLEAN : TU_EffectSettles(ok)
  \/ TU_OnPick
  \/ TU_PickDiscoveryResolves
  \/ TU_PickDiscoveryRejects
  \/ \E call \in SubmitCalls : SubmitJob(call)
  \/ RequestReturns
  \/ RequestThrows

Init == UploadInit /\ PollInit /\ FlowInit

\* The upload and the polling do not depend on which endpoint the backend
\* serves, nor the upload on the component.
InitUpload ==
  /\ UploadInit /\ PollInit /\ FlowInit
  /\ component = "FeaturePage"
  /\ served = <<"http://tus">>

InitPoll == UploadInit /\ PollInit /\ FlowInit /\ served = <<"http://tus">>

SpecUpload == InitUpload /\ [][NextUpload]_vars

SpecPoll == InitPoll /\ [][NextPoll]_vars

SpecFlow == Init /\ [][NextFlow]_vars

\* ================================================================ claims
\* ------------------------------------------------ multipart upload claims

ChunkOfPart(k) == Chunk(presigned_urls[k])

\* C1: for every file size and chunk size the chunks that are sliced for the
\* parts cover the file exactly once: the first chunk starts at byte 0, each
\* chunk ends where the next one starts, the last chunk ends at fileSize, and
\* the last chunk's size is fileSize - (numParts - 1) * chunkSize.
C1_RangesPartitionFile ==
  uploadInfo.initiated =>
    /\ ChunkOfPart(1)[1] = 0
    /\ \A k \in 1..(NParts - 1) : ChunkOfPart(k)[2] = ChunkOfPart(k + 1)[1]
    /\ ChunkOfPart(NParts)[2] = fileSize
    /\ ChunkSizeOf(ChunkOfPart(NParts)) = fileSize - (NParts - 1) * chunkSize

\* C2: at most maxConcurrent part PUT requests are started and not finished.
C2_InFlightBounded ==
  uploadInfo.initiated => Cardinality(InFlight) <= maxConcurrent

C2_Witness ==
  /\ upc = "uploading"
  /\ maxConcurrent >= 2
  /\ Cardinality(InFlight) = maxConcurrent
  /\ Pending # {}

\* C3: part uploads are pipelined: while the upload runs and a part is still
\* pending, every one of the maxConcurrent slots is in use (a part that
\* completes is replaced by the next pending part at once).
C3_Pipelined ==
  (upc = "uploading" /\ Pending # {}) => Cardinality(InFlight) = maxConcurrent

\* C4: when a part has failed, the upload has failed (the error reached the
\* caller) and no completion call has been sent.
C4_PartFailureIsFatal ==
  (\E k \in DOMAIN partState : partState[k] \in FailedStates) =>
    (upc = "failed" /\ failure = "part" /\ completeCalls = 0)

C4_Witness ==
  /\ \E k \in DOMAIN partState : partState[k] \in FailedStates
  /\ \E k \in DOMAIN partState : partState[k] = "ok"
  /\ InFlight = {}
  /\ batchIndex > 0

\* C5: abort is idempotent: however often abort is requested for the upload,
\* exactly one abort request is sent to the backend.
C5_AbortIdempotent == abortRequests >= 1 => abortCalls = 1

\* C6: when the completion call has failed, an abort request for the upload
\* has been sent by the time the error is returned to the caller.
C6_CompletionFailureAborts ==
  (upc = "failed" /\ failure = "complete") => abortCalls >= 1

\* The UploadSession state the call is in: planning up to the initiate
\* response, then uploading, completing, and completed or failed when the
\* promise of uploadWithS3Multipart has settled.
Lifecycle(pc) ==
  CASE pc \in {"idle", "initiating"} -> "Planning"
    [] pc = "uploading" -> "Uploading"
    [] pc = "completing" -> "Completing"
    [] pc = "returned" -> "Completed"
    [] pc = "failed" -> "Failed"

ClaimedSteps ==
  {<<"Planning", "Uploading">>, <<"Uploading", "Completing">>,
   <<"Completing", "Completed">>, <<"Uploading", "Failed">>,
   <<"Failed", "Aborted">>, <<"Uploading", "Aborted">>}

\* C11 as claimed: the lifecycle of an upload moves only along Planning ->
\* Uploading -> Completing -> Completed, Uploading -> Failed and
\* Failed/Uploading -> Aborted.
C11_ClaimedStepsOnly ==
  [][Lifecycle(upc') = Lifecycle(upc)
       \/ <<Lifecycle(upc), Lifecycle(upc')>> \in ClaimedSteps]_vars

AmendedSteps ==
  {<<"Planning", "Uploading">>, <<"Uploading", "Completing">>,
   <<"Completing", "Completed">>, <<"Planning", "Failed">>,
   <<"Uploading", "Failed">>, <<"Completing", "Failed">>}

\* C11 as amended: the lifecycle moves only along Planning -> Uploading ->
\* Completing -> Completed and from Planning, Uploading or Completing to
\* Failed (the initiate call, a part or the completion call fails); it never
\* moves backwards, never skips a step and never leaves Completed or Failed.
C11_ForwardOnly ==
  [][Lifecycle(upc') = Lifecycle(upc)
       \/ <<Lifecycle(upc), Lifecycle(upc')>> \in AmendedSteps]_vars

C11_Witness ==
  /\ upc = "failed"
  /\ failure = "complete"
  /\ batchIndex >= 2 * maxConcurrent

\* C12: once the upload has ended (its promise resolved or rejected), a part
\* response that arrives afterwards records no ETag and does not change the
\* completed-bytes count.
C12_TerminalRejectsParts ==
  [][(upc \in {"returned", "failed"}) =>
       UNCHANGED <<parts, completedBytes>>]_vars

RECURSIVE SumOfChunks(_)
SumOfChunks(S) ==
  IF S = {} THEN 0
  ELSE LET k == CHOOSE x \in S : TRUE
       IN  ChunkSizeOf(sliced[k]) + SumOfChunks(S \ {k})

\* C20: a part whose PUT was answered successfully but without an ETag has
\* failed: no {part_number, etag} entry is stored for it, its bytes are not
\* counted as completed, and no completion call has been sent.
C20_MissingETagFailsPart ==
  \A k \in DOMAIN partState :
    partState[k] = "no_etag" =>
      /\ \A i \in DOMAIN parts : parts[i] # presigned_urls[k].part_number
      /\ completedBytes =
           SumOfChunks({j \in DOMAIN partState : partState[j] = "ok"})
      /\ completeCalls = 0

C20_Witness ==
  /\ \E k \in DOMAIN partState : partState[k] = "no_etag"
  /\ \E k \in DOMAIN partState : partState[k] = "ok"
  /\ completedBytes > 0
  /\ upc = "failed"

\* C21: a part that has failed with a transient error (429, 5xx, rejected
\* fetch) was retried before: more than one PUT was sent for it.
C21_TransientRetried ==
  \A k \in DOMAIN partState : partState[k] \in Transient => puts[k] >= 2

\* C22: a part whose PUT was answered with a 4xx status other than 429 has
\* failed at once: the upload has failed, and one PUT was sent for the part
\* and stays the only one.
C22_NonTransientFailsAtOnce ==
  \A k \in DOMAIN partState :
    partState[k] = "http_4xx" =>
      (puts[k] = 1 /\ upc = "failed" /\ failure = "part")

\* The first part of a second batch was answered 403; every other PUT has
\* been answered.
C22_Witness ==
  /\ batchIndex > 0
  /\ batchIndex + 1 \in DOMAIN partState
  /\ partState[batchIndex + 1] = "http_4xx"
  /\ InFlight = {}

\* C23: at most one completion call is sent; when it has been sent, every
\* part had been answered with an ETag, and the call carried one entry per
\* part, in the order of the part list (ascending part_number).
C23_CompletionOrdered ==
  /\ completeCalls <= 1
  /\ completeCalls = 1 =>
       /\ \A k \in DOMAIN partState : partState[k] = "ok"
       /\ completePayload =
            [k \in 1..NParts |-> presigned_urls[k].part_number]

\* The completion call of an upload of three parts or more has been sent, and
\* the part that finished last was not the last part.
C23_Witness ==
  /\ completeCalls = 1
  /\ NParts >= 3
  /\ lastStored # NParts

\* C24: the completed-bytes counter is always the sum of the sizes of the
\* chunks of the parts whose entry is stored, it never exceeds the file size,
\* and it never decreases.
C24_BytesMatchRecordedParts ==
  /\ [](/\ completedBytes =
            SumOfChunks({k \in DOMAIN partState :
                           \E i \in DOMAIN parts :
                             parts[i] = presigned_urls[k].part_number})
        /\ completedBytes <= fileSize)
  /\ [][completedBytes' >= completedBytes]_vars

\* Parts 2 and 3 of a batch have been recorded while part 1 is still in
\* flight.
C24_Witness ==
  /\ Len(parts) >= 3
  /\ parts[1] = 0
  /\ parts[2] = 2
  /\ parts[3] = 3
  /\ partState[1] = "inflight"
  /\ completedBytes > 0

\* C25: when uploadWithS3Multipart has returned the reference, the initiate
\* call, every part and then the one completion call had succeeded; when the
\* initiate call, a part or the completion call has failed, the call has
\* rejected with the error instead, and after a failed initiate call no PUT
\* and after a failed part no completion call was sent.
C25_ReferenceOnlyAfterAll ==
  /\ upc = "returned" =>
       /\ failure = "none"
       /\ uploadInfo.initiated
       /\ \A k \in DOMAIN partState : partState[k] = "ok"
       /\ completeCalls = 1
  /\ failure # "none" => upc = "failed"
  /\ (\E k \in DOMAIN partState : partState[k] \in FailedStates) =>
       failure = "part"
  /\ failure = "initiate" => (partState = <<>> /\ completeCalls = 0)
  /\ failure = "part" => completeCalls = 0

\* The reference of a file of two batches has been returned.
C25_Witness ==
  /\ upc = "returned"
  /\ NParts > maxConcurrent
  /\ completedBytes = fileSize

\* The last index of the batch that part k belongs to.
BatchEnd(k) == (((k - 1) \div maxConcurrent) + 1) * maxConcurrent

\* C29: the parts for which a PUT was sent are a prefix of the part list, and
\* when a part has failed no PUT was sent for a part behind its batch.
C29_NoBatchAfterFailure ==
  /\ \A k \in DOMAIN puts : puts[k] > 0 => \A j \in 1..k : puts[j] > 0
  /\ \A k \in DOMAIN partState :
       partState[k] \in FailedStates =>
         \A j \in DOMAIN puts : j > BatchEnd(k) => puts[j] = 0

\* A part of the first batch has failed, every PUT sent has been answered,
\* and parts of a second batch exist.
C29_Witness ==
  /\ \E k \in DOMAIN partState :
       k <= maxConcurrent /\ partState[k] \in FailedStates
  /\ InFlight = {}
  /\ NParts > maxConcurrent
  /\ puts[NParts] = 0

\* --------------------------------------------------- job polling claims

\* C7: once a status response of a job was SUCCESS or FAILURE, the loop of the
\* job has ended (it sends no further status request), and at the response
\* itself the snapshot was emitted.
C7_StopsAtTerminal ==
  /\ \A id \in Ids : termSeen[id] => loop[id] = "done"
  /\ lastSnapshot.state \in TerminalTokens => lastSnapshot.emitted

C7_Witness ==
  \E id \in Ids :
    /\ termSeen[id]
    /\ lastSnapshot = [id |-> id, state |-> "FAILURE", emitted |-> TRUE,
                       mounted |-> TRUE]
    /\ \E k \in DOMAIN jobs : jobs[k].id = id /\ jobs[k].state = "FAILURE"

\* C8: after the owner of a tracker has gone away, no snapshot is emitted.
C8_NoSnapshotAfterCancel == lastSnapshot.emitted => lastSnapshot.mounted

\* C9: trackers are independent: while the loop of one job has a status
\* request outstanding or is waiting, the loop of every other job can take its
\* own next step: send its next request when it is waiting, receive its
\* terminal snapshot when its request is outstanding.
C9_TrackersIndependent ==
  \A id \in Ids, other \in Ids :
    (id # other /\ loop[other] \in {"requesting", "sleeping"}) =>
      /\ loop[id] = "sleeping" => ENABLED TimerFires(id)
      /\ loop[id] = "requesting" =>
           \A s \in TerminalTokens : ENABLED StatusResponds(id, s)

\* Job 1's first status request was never answered, and meanwhile job 2 was
\* polled to its terminal snapshot.
C9_Witness ==
  /\ mounted
  /\ loop[1] = "requesting"
  /\ \E k \in DOMAIN jobs :
       jobs[k].id = 1 /\ jobs[k].state \in {"STARTED", "PENDING"}
  /\ loop[2] = "done"
  /\ lastSnapshot.id = 2
  /\ lastSnapshot.state \in TerminalTokens

C13_SubmissionFailureSurfaced ==
  /\ \A t \in noId : loop[t] = "none"
  /\ (component = "FeaturePage" /\ creating = <<>>) =>
       \A k \in DOMAIN jobs : jobs[k].state # "QUEUED"

\* C16: a loop has ended with a failed status request only after several
\* failed status requests in a row.
C16_ToleratesOneFailure ==
  \A id \in Ids : loop[id] = "crashed" => failStreak[id] >= 2

\* The canonical state a token of the status endpoint stands for.
Canonical(tok) == IF tok = "success" THEN "SUCCESS" ELSE tok

\* C17: every stored state is a canonical one, and the loop stops at every
\* token that stands for a terminal state, whatever its casing.
C17_TokensNormalised ==
  /\ \A k \in DOMAIN jobs : jobs[k].state = Canonical(jobs[k].state)
  /\ lastSnapshot # NoSnapshot =>
       (Canonical(lastSnapshot.state) \in TerminalTokens =>
          loop[lastSnapshot.id] = "done")

\* C27: the slot of a mounted panel with one job slot shows the job submitted
\* last.
C27_SlotShowsLatestJob ==
  (component = "MergePanel" /\ mounted /\ jobs # <<>>) =>
    jobs[1].id = TaskId(nextId - 1)

\* C28: the loops agree on every snapshot whether it is the one to stop at.
C28_LoopsStopAlike ==
  lastSnapshot # NoSnapshot =>
    /\ PollJobStops(lastSnapshot.state) <=> PanelStops(lastSnapshot.state)
    /\ SplitPanelStops(lastSnapshot.state) <=> PanelStops(lastSnapshot.state)

\* C30: in FeaturePage, the step that delivers a snapshot of the loop of a job
\* leaves the number of entries, their order and their ids as they are, and
\* changes no entry whose id differs from the id the loop polls.
C30_SnapshotChangesOwnEntryOnly ==
  [][\A t \in Ids :
       (component = "FeaturePage" /\ loop[t] = "requesting"
          /\ loop'[t] \in {"sleeping", "done"}) =>
         /\ Len(jobs') = Len(jobs)
         /\ \A k \in DOMAIN jobs :
              /\ jobs'[k].id = jobs[k].id
              /\ jobs[k].id # TaskId(t) => jobs'[k] = jobs[k]]_vars

\* Job 2 has been polled to SUCCESS while job 1, listed before it, is still
\* polled.
C30_Witness ==
  /\ component = "FeaturePage"
  /\ mounted
  /\ jobs = <<[id |-> 1, state |-> "PENDING"], [id |-> 2, state |-> "SUCCESS"]>>
  /\ lastSnapshot.id = 2
  /\ loop[1] = "sleeping"

\* ---------------------------------- discovery and job submission claims
\* C14: no request of a merge submission is outstanding that lacks the video
\* reference or the audio reference.
C14_MergeRejectedBeforeNetwork ==
  apiCall.kind = "merge" => (apiCall.video # "" /\ apiCall.audio # "")

\* C15: every call of a submission operation has sent exactly one request,
\* while it is outstanding and after it has returned or thrown.
C15_OneRequestPerSubmission == requests = invocations

\* A first submission has thrown and a second one, a merge, is outstanding.
C15_Witness ==
  /\ apiOutcome = "thrown"
  /\ apiCall.kind = "merge"
  /\ invocations = 2

\* C18: once a getTusEndpoint() call has returned an endpoint, no step sends
\* a discovery request.
C18_DiscoveredOnce ==
  [][discovered =>
       /\ ~(fpRun # "discovering" /\ fpRun' = "discovering")
       /\ ~(tuPick # "discovering" /\ tuPick' = "discovering")]_vars

\* C19: upload requests only go to an endpoint that a discovery has answered,
\* as it was answered or with "/files" ensured; FeaturePage holds an endpoint
\* only from a discovery; a run that starts while FeaturePage holds none asks
\* for it first; and when that request fails the run ends with an alert and
\* no upload request.
C19_ClosedOnFailedDiscovery ==
  [][/\ uploadsTo' \subseteq {served, ensureFilesEndpoint(served)}
     /\ uploadsTo' # {} => discovered'
     /\ tusEndpoint' # <<>> => discovered'
     /\ (tusEndpoint = <<>> /\ fpRun = "idle" /\ fpRun' # "idle") =>
          fpRun' = "discovering"
     /\ (fpRun = "discovering" /\ fpRun' = "idle") =>
          (uploadsTo' = uploadsTo /\ lastAlert' = "error")]_vars

\* The mount effects' discoveries and the one of a run have all failed: the
\* run has ended with an alert, and nothing was uploaded.
C19_Witness ==
  /\ fpEffect = "done"
  /\ tuEffect = "failed"
  /\ ~discovered
  /\ tusEndpoint = <<>>
  /\ fpRun = "idle"
  /\ lastAlert = "error"
  /\ uploadsTo = {}

\* C26: in a run of FeaturePage, the URLs that went into submitted jobs are
\* URLs of uploads that succeeded: no split job for a file whose upload
\* failed, and no merge job unless the video and the audio upload succeeded.
C26_JobsOnlyForUploadedFiles ==
  /\ fpSubmitted \subseteq fpUps
  /\ (fpKind = "merge" /\ fpSubmitted # {}) => fpUps = Files

\* A merge run has ended with an alert and without a job: the video upload
\* succeeded and the audio upload failed.
C26_Witness ==
  /\ fpKind = "merge"
  /\ fpRun = "idle"
  /\ fpUps = {1}
  /\ fpSubmitted = {}
  /\ lastAlert = "error"

====
